---- MODULE Spec2Model ----
(***************************************************************************)
(* Mesh topology closure of DOLFIN (dolfin/mesh/TopologyComputation.cpp).  *)
(*                                                                         *)
(* A mesh is given by its cells, each a tuple of vertex indices.  The      *)
(* topology table holds the entity counts N_d and the incidences           *)
(* Conn[d0][d1]; compute_entities, compute_connectivity,                   *)
(* compute_from_transpose and compute_from_intersection fill it on demand. *)
(* Entity indices are 0-based as in the code; TLA+ sequences are 1-based,  *)
(* so entity e lives at position e + 1 of a sequence.                      *)
(***************************************************************************)
EXTENDS Integers, Sequences, FiniteSets, TLC

VARIABLES mesh, topology, status, hit, pi, topologyPi, statusPi, requests

vars == <<mesh, topology, status, hit, pi, topologyPi, statusPi, requests>>

(***************************************************************************)
(* Bounds of the model.                                                    *)
(***************************************************************************)
\* Largest number of cells of an input mesh.
MaxCells == 3

\* Largest number of requests made on the two runs compared side by side.
MaxRequests == 1

(***************************************************************************)
(* Sequence helpers.                                                       *)
(***************************************************************************)
Range(s) == {s[i] : i \in 1..Len(s)}

\* s with position k replaced by v.
SeqSet(s, k, v) == SubSeq(s, 1, k - 1) \o <<v>> \o SubSeq(s, k + 1, Len(s))

\* s[m..n], empty when n < m.
Slice(s, m, n) == SubSeq(s, m, n)

\* The rows of a ragged table one after the other.
RECURSIVE Flatten(_)
Flatten(rows) ==
    IF Len(rows) = 0 THEN <<>>
    ELSE IF Len(rows) = 1 THEN rows[1]
    ELSE LET h == Len(rows) \div 2
         IN  Flatten(SubSeq(rows, 1, h)) \o Flatten(SubSeq(rows, h + 1, Len(rows)))

RECURSIVE SumSeq(_)
SumSeq(s) == IF Len(s) = 0 THEN 0 ELSE Head(s) + SumSeq(Tail(s))

Count(s, x) == Cardinality({i \in 1..Len(s) : s[i] = x})

SetMin(S) == CHOOSE x \in S : \A y \in S : x <= y

\* std::sort on a vector of vertex indices: ascending, duplicates kept.
RECURSIVE Sort(_)
Sort(s) ==
    IF Len(s) = 0 THEN <<>>
    ELSE LET m == SetMin(Range(s))
             i == SetMin({j \in 1..Len(s) : s[j] = m})
         IN  <<m>> \o Sort(Slice(s, 1, i - 1) \o Slice(s, i + 1, Len(s)))

(***************************************************************************)
(* MeshConnectivity: the CSR incidence store.                              *)
(***************************************************************************)
\* A store that was never initialised: no rows.
EmptyConnectivity == [offsets |-> <<0>>, values |-> <<>>]

\* size(): the number of source entities (rows).
Size(c) == Len(c.offsets) - 1

\* Total number of stored connections.
NumConnections(c) == Len(c.values)

\* The neighbours of source entity i: values[offsets[i] .. offsets[i+1]).
Row(c, i) == Slice(c.values, c.offsets[i + 1] + 1, c.offsets[i + 2])

Rows(c) == [i \in 1..Size(c) |-> Row(c, i - 1)]

\* The exclusive prefix sums of the row sizes, ending with their total.
RECURSIVE Offsets(_, _)
Offsets(sizes, n) ==
    IF n = 0 THEN <<0>>
    ELSE LET o == Offsets(sizes, n - 1)
         IN  Append(o, o[n] + sizes[n])

\* init(sizes): offsets are the exclusive prefix sums, values zero-filled.
InitSizes(sizes) ==
    [offsets |-> Offsets(sizes, Len(sizes)),
     values  |-> [i \in 1..SumSeq(sizes) |-> 0]]

\* set(i, j, pos): values[offsets[i] + pos] = j.
SetAt(c, i, j, pos) ==
    [offsets |-> c.offsets,
     values  |-> SeqSet(c.values, c.offsets[i + 1] + pos + 1, j)]

\* set(rows): lay an already materialised ragged table out as CSR.
SetRagged(rows) ==
    [offsets |-> Offsets([j \in 1..Len(rows) |-> Len(rows[j])], Len(rows)),
     values  |-> Flatten(rows)]

(***************************************************************************)
(* CellType: the cell-shape oracle for interval, triangle, tetrahedron.    *)
(***************************************************************************)
\* create_entities: local vertex tuples of the dim-entities of a D-simplex.
LocalEntities(D, dim) ==
    IF dim = 0 THEN [k \in 1..(D + 1) |-> <<k - 1>>]
    ELSE IF dim = D THEN << [k \in 1..(D + 1) |-> k - 1] >>
    ELSE IF D = 2 THEN << <<1, 2>>, <<0, 2>>, <<0, 1>> >>
    ELSE IF dim = 1
         THEN << <<2, 3>>, <<1, 3>>, <<1, 2>>, <<0, 3>>, <<0, 2>>, <<0, 1>> >>
         ELSE << <<1, 2, 3>>, <<0, 2, 3>>, <<0, 1, 3>>, <<0, 1, 2>> >>

\* num_entities(dim): m_T(dim).
NumEntities(D, dim) == Len(LocalEntities(D, dim))

\* num_vertices(dim): n_T(dim).
NumVerticesPerEntity(D, dim) == Len(LocalEntities(D, dim)[1])

\* create_entities(entities, dim, vertices): the oracle applied to one cell.
CreateEntities(D, dim, vertices) ==
    [k \in 1..NumEntities(D, dim) |->
        [j \in 1..NumVerticesPerEntity(D, dim) |->
            vertices[LocalEntities(D, dim)[k][j] + 1]]]

(***************************************************************************)
(* MeshTopology: the table of counts and incidences.                       *)
(***************************************************************************)
Dims(D) == 0..D

Pairs(D) == Dims(D) \X Dims(D)

\* topology(d0, d1)
Conn(top, d0, d1) == top.conn[<<d0, d1>>]

\* topology.size(d): N_d, 0 while unknown.
TopSize(top, d) == top.N[d]

\* topology.init(dim, size)
TopInit(top, dim, size) ==
    [N |-> (dim :> size) @@ top.N, conn |-> top.conn]

\* topology(d0, d1).set(...) / .init(...): replace the store of one pair.
TopSet(top, d0, d1, c) ==
    [N |-> top.N, conn |-> (<<d0, d1>> :> c) @@ top.conn]

\* The table right after mesh construction: N_0, N_D and Conn[D][0].
InitialTopology(m) ==
    [N    |-> [d \in Dims(m.D) |->
                 IF d = 0 THEN m.N0
                 ELSE IF d = m.D THEN Len(m.cells) ELSE 0],
     conn |-> [p \in Pairs(m.D) |->
                 IF p = <<m.D, 0>> THEN SetRagged(m.cells)
                 ELSE EmptyConnectivity]]

(***************************************************************************)
(* Outcome of a call: the table it leaves and how it ended.                *)
(***************************************************************************)
Ok(top) == [top |-> top, status |-> "ok"]

\* dolfin_error / dolfin_assert: the request is aborted.
Fatal(top, what) == [top |-> top, status |-> what]

\* The call chain holds the same call on the same table twice: the
\* recursion never returns.
Diverged(top) == [top |-> top, status |-> "diverged"]

(***************************************************************************)
(* contains (lines 476-505).                                               *)
(***************************************************************************)
\* A containment test satisfied by one common vertex.
contains_Any(v0, v1) ==
    \E i1 \in 1..Len(v1) : \E i0 \in 1..Len(v0) : v0[i0] = v1[i1]

\* contains(v0, n0, v1, n1): every vertex of v1 occurs in v0.
contains(v0, v1) ==
    \A i1 \in 1..Len(v1) : \E i0 \in 1..Len(v0) : v0[i0] = v1[i1]

(***************************************************************************)
(* compute_entities: the loop over cells (lines 140-221).                  *)
(***************************************************************************)
\* A compute_entities that compares the local tuples as the oracle lists them.
SortEntity_Unsorted(entity) == entity

\* Line 167: the local entity is sorted in place.
SortEntity(entity) == Sort(entity)

\* A search that looks at the cell visited last only.
Visited_Previous(c0, c) == c0 + 1 = c

\* Lines 173-174: only previously visited cells are searched.
Visited(c0, c) == c0 < c

\* A comparison that stops at the first vertex.
Matches_First(other, entity) == other[1] = entity[1]

\* Line 185: equality of the recorded and the current vertex list.
Matches(other, entity) == other = entity

\* Lines 170-193: the recorded entities of the visited cells connected to c
\* that equal the entity, in search order.
SearchEntity(entity, c, neighbours, ce_list) ==
    SelectSeq(
        Flatten([i \in 1..Len(neighbours) |->
                    IF Visited(neighbours[i], c)
                    THEN ce_list[neighbours[i] + 1] ELSE <<>>]),
        LAMBDA other : Matches(other[2], entity))

\* A found entity that is not entered into the cell's row.
AddFound_Skip(acc, c, index) == acc

\* Line 188: the entity exists, its index is added to the cell's row.
AddFound(acc, c, index) ==
    [ce_list         |-> acc.ce_list,
     connectivity_ce |-> SeqSet(acc.connectivity_ce, c + 1,
                                Append(acc.connectivity_ce[c + 1], index)),
     connectivity_ev |-> acc.connectivity_ev,
     current_entity  |-> acc.current_entity]

\* Lines 196-205: a new entity is recorded, numbered and stored.
AddNew(acc, c, entity) ==
    [ce_list         |-> SeqSet(acc.ce_list, c + 1,
                                Append(acc.ce_list[c + 1],
                                       <<acc.current_entity, entity>>)),
     connectivity_ce |-> SeqSet(acc.connectivity_ce, c + 1,
                                Append(acc.connectivity_ce[c + 1],
                                       acc.current_entity)),
     connectivity_ev |-> Append(acc.connectivity_ev, entity),
     current_entity  |-> acc.current_entity + 1]

\* Lines 164-210: the loop over the local entities of cell c.
RECURSIVE CellEntitiesLoop(_, _, _, _, _)
CellEntitiesLoop(acc, c, entities, k, neighbours) ==
    IF k > Len(entities) THEN acc
    ELSE LET sorted == SortEntity(entities[k])
             found  == SearchEntity(sorted, c, neighbours, acc.ce_list)
         IN  IF Len(found) > 0
             THEN CellEntitiesLoop(AddFound(acc, c, found[1][1]),
                                   c, entities, k + 1, neighbours)
             ELSE CellEntitiesLoop(AddNew(acc, c, sorted),
                                   c, entities, k + 1, neighbours)

\* Lines 151-211: the loop over the cells in ascending index order.
RECURSIVE CellLoop(_, _, _, _)
CellLoop(acc, c, top, dim) ==
    LET D  == Cardinality(DOMAIN top.N) - 1
        cv == Conn(top, D, 0)
    IN  IF c >= Len(acc.connectivity_ce) THEN acc
        ELSE CellLoop(
                 CellEntitiesLoop(acc, c, CreateEntities(D, dim, Row(cv, c)),
                                  1, Row(Conn(top, D, D), c)),
                 c + 1, top, dim)

\* Lines 143-149, 213-218: scratch set-up, the loop, then the table update.
CreateNewEntities(top, dim) ==
    LET D    == Cardinality(DOMAIN top.N) - 1
        nc   == TopSize(top, D)
        acc0 == [ce_list         |-> [c \in 1..nc |-> <<>>],
                 connectivity_ce |-> [c \in 1..nc |-> <<>>],
                 connectivity_ev |-> <<>>,
                 current_entity  |-> 0]
        acc  == CellLoop(acc0, 0, top, dim)
        t1   == TopInit(top, dim, Len(acc.connectivity_ev))
        t2   == TopSet(t1, D, dim, SetRagged(acc.connectivity_ce))
    IN  TopSet(t2, dim, 0, SetRagged(acc.connectivity_ev))

(***************************************************************************)
(* compute_from_transpose (lines 291-330).                                 *)
(***************************************************************************)
\* The (e1, e0) pairs in the order of the two nested entity iterators.
TransposePairs(top, d0, d1) ==
    Flatten([i \in 1..TopSize(top, d1) |->
                LET r == Row(Conn(top, d1, d0), i - 1)
                IN  [j \in 1..Len(r) |-> <<i - 1, r[j]>>]])

\* Lines 313-318: the number of connections of every d0-entity.
TransposeCounts(top, d0, d1) ==
    LET pairs == TransposePairs(top, d0, d1)
    IN  [e0 \in 1..TopSize(top, d0) |->
            Cardinality({i \in 1..Len(pairs) : pairs[i][2] = e0 - 1})]

\* A fill that never advances the position within a row.
TransposeFill_NoAdvance(st, e0, e1) ==
    [connectivity |-> SetAt(st.connectivity, e0, e1, st.tmp[e0 + 1]),
     tmp          |-> st.tmp,
     e1           |-> st.e1]

\* Line 329: connectivity.set(e0, e1, tmp[e0]++).
TransposeFill(st, e0, e1) ==
    [connectivity |-> SetAt(st.connectivity, e0, e1, st.tmp[e0 + 1]),
     tmp          |-> SeqSet(st.tmp, e0 + 1, st.tmp[e0 + 1] + 1),
     e1           |-> st.e1]

\* Lines 328-329: the loop over the d0-entities e0 of e1; then e1 advances.
RECURSIVE TransposeRowLoop(_, _, _)
TransposeRowLoop(st, row, j) ==
    IF j > Len(row)
    THEN [connectivity |-> st.connectivity, tmp |-> st.tmp, e1 |-> st.e1 + 1]
    ELSE TransposeRowLoop(TransposeFill(st, row[j], st.e1), row, j + 1)

\* Lines 327-329: the loop over the d1-entities e1.
RECURSIVE TransposeLoop(_, _, _, _)
TransposeLoop(st, top, d0, d1) ==
    IF st.e1 >= TopSize(top, d1) THEN st.connectivity
    ELSE TransposeLoop(
             TransposeRowLoop(st, Row(Conn(top, d1, d0), st.e1), 1),
             top, d0, d1)

compute_from_transpose(top, d0, d1) ==
    IF ~(Size(Conn(top, d1, d0)) > 0)
    THEN Fatal(top, "assert: transpose needs connectivity d1 - d0")
    ELSE LET tmp == TransposeCounts(top, d0, d1)
             c   == TransposeLoop([connectivity |-> InitSizes(tmp),
                                   tmp          |-> [i \in 1..Len(tmp) |-> 0],
                                   e1           |-> 0],
                                  top, d0, d1)
         IN  Ok(TopSet(top, d0, d1, c))

(***************************************************************************)
(* compute_from_intersection (lines 332-386).                              *)
(***************************************************************************)
\* An acceptance test that lets an entity be its own neighbour.
Accepts_Self(top, d0, d1, e0, e1, entities) ==
    IF d0 = d1
    THEN e1 \notin Range(entities)
    ELSE /\ contains(Row(Conn(top, d0, 0), e0), Row(Conn(top, d1, 0), e1))
         /\ e1 \notin Range(entities)

\* Lines 365-376: is e1 added to the row of e0?
Accepts(top, d0, d1, e0, e1, entities) ==
    IF d0 = d1
    THEN e0 # e1 /\ e1 \notin Range(entities)
    ELSE /\ contains(Row(Conn(top, d0, 0), e0), Row(Conn(top, d1, 0), e1))
         /\ e1 \notin Range(entities)

\* Lines 363-377: the loop over the d1-entities e1 of one intermediate
\* entity, given as its row.
RECURSIVE CandidateLoop(_, _, _, _, _, _, _)
CandidateLoop(top, d0, d1, e0, row, j, entities) ==
    IF j > Len(row) THEN entities
    ELSE IF Accepts(top, d0, d1, e0, row[j], entities)
    THEN CandidateLoop(top, d0, d1, e0, row, j + 1, Append(entities, row[j]))
    ELSE CandidateLoop(top, d0, d1, e0, row, j + 1, entities)

\* Lines 360-378: the loop over the intermediate entities es of e0.
RECURSIVE IntersectionRow(_, _, _, _, _, _, _, _)
IntersectionRow(top, d0, d1, d, e0, es, i, entities) ==
    IF i > Len(es) THEN entities
    ELSE IntersectionRow(top, d0, d1, d, e0, es, i + 1,
             CandidateLoop(top, d0, d1, e0, Row(Conn(top, d, d1), es[i]),
                           1, entities))

\* A store of the result under the intermediate dimension.
StoreIntersection_Intermediate(top, d0, d1, d, connectivity) ==
    TopSet(top, d0, d, SetRagged(connectivity))

\* Line 385: topology(d0, d1).set(connectivity).
StoreIntersection(top, d0, d1, d, connectivity) ==
    TopSet(top, d0, d1, SetRagged(connectivity))

compute_from_intersection(top, d0, d1, d) ==
    IF ~(d0 >= d1)
    THEN Fatal(top, "assert: intersection needs d0 >= d1")
    ELSE IF ~(Size(Conn(top, d0, d)) > 0)
    THEN Fatal(top, "assert: intersection needs connectivity d0 - d")
    ELSE IF ~(Size(Conn(top, d, d1)) > 0)
    THEN Fatal(top, "assert: intersection needs connectivity d - d1")
    ELSE LET connectivity ==
                 [i \in 1..TopSize(top, d0) |->
                     IntersectionRow(top, d0, d1, d, i - 1,
                         Row(Conn(top, d0, d), i - 1), 1, <<>>)]
         IN  Ok(StoreIntersection(top, d0, d1, d, connectivity))

(***************************************************************************)
(* compute_entities (lines 40-221) and compute_connectivity (lines         *)
(* 223-289), which call each other.  `active` is the set of calls on the   *)
(* call chain, each with the table it was entered on.                      *)
(***************************************************************************)
TopDim(top) == Cardinality(DOMAIN top.N) - 1

\* Lines 244-245: has the connectivity already been computed?
AlreadyComputed(top, d0, d1) == Size(Conn(top, d0, d1)) > 0

\* A strategist that does not look again after computing the entities.
ComputedMeanwhile_Skipped(top, d0, d1) == FALSE

\* Lines 259-261: computing the entities of d0 and d1 may have produced the
\* connectivity already.
ComputedMeanwhile(top, d0, d1) == Size(Conn(top, d0, d1)) > 0

\* Lines 280-282: the intermediate dimension of the intersection.
Intermediate(top, d0, d1) == IF d0 = 0 /\ d1 = 0 THEN TopDim(top) ELSE 0

\* One call of compute_entities (d0 = d1 = dim) or of compute_connectivity.
\* The two functions call each other, so they are one recursive definition.
RECURSIVE Call(_, _, _, _, _)
Call(f, top, d0, d1, active) ==
    LET frame == <<f, d0, d1, top>>
        chain == active \cup {frame}
    IN  IF frame \in active THEN Diverged(top)
        ELSE IF f = "compute_entities"
        THEN
        \* compute_entities(mesh, dim), lines 40-221
        LET dim == d0
            ce  == Conn(top, TopDim(top), dim)
            ev  == Conn(top, dim, 0)
        IN  IF TopSize(top, dim) > 0
            THEN IF \/ (Size(ce) = 0 /\ dim # TopDim(top))
                    \/ (Size(ev) = 0 /\ dim # 0)
                 THEN Fatal(top, "error: entities exist but connectivity is missing")
                 ELSE Ok(top)
            ELSE IF Size(ce) > 0 \/ Size(ev) > 0
            THEN Fatal(top, "error: connectivity exists but entities are missing")
            ELSE LET r == Call("compute_connectivity", top,
                               TopDim(top), TopDim(top), chain)
                 IN  IF r.status # "ok" THEN r
                     ELSE Ok(CreateNewEntities(r.top, dim))
        ELSE
        \* compute_connectivity(mesh, d0, d1), lines 223-289
        IF AlreadyComputed(top, d0, d1) THEN Ok(top)
        ELSE
        LET r0 == IF TopSize(top, d0) = 0
                  THEN Call("compute_entities", top, d0, d0, chain) ELSE Ok(top)
            r1 == IF r0.status # "ok" THEN r0
                  ELSE IF TopSize(r0.top, d1) = 0
                  THEN Call("compute_entities", r0.top, d1, d1, chain) ELSE r0
            t  == r1.top
        IN  IF r1.status # "ok" THEN r1
            ELSE IF TopSize(t, d0) = 0 /\ TopSize(t, d1) = 0 THEN r1
            ELSE IF ComputedMeanwhile(t, d0, d1) THEN r1
            ELSE IF d0 < d1
            THEN LET a == Call("compute_connectivity", t, d1, d0, chain)
                 IN  IF a.status # "ok" THEN a
                     ELSE compute_from_transpose(a.top, d0, d1)
            ELSE IF d0 > 0 /\ d1 = 0
            THEN Fatal(t, "assert: connectivity to vertices should exist")
            ELSE LET d == Intermediate(t, d0, d1)
                     a == Call("compute_connectivity", t, d0, d, chain)
                     b == IF a.status # "ok" THEN a
                          ELSE Call("compute_connectivity", a.top, d, d1, chain)
                 IN  IF b.status # "ok" THEN b
                     ELSE compute_from_intersection(b.top, d0, d1, d)

compute_entities(top, dim, active) ==
    Call("compute_entities", top, dim, dim, active)

compute_connectivity(top, d0, d1, active) ==
    Call("compute_connectivity", top, d0, d1, active)

(***************************************************************************)
(* Input meshes.                                                           *)
(***************************************************************************)
\* Number of vertex indices a mesh of dimension D draws its cells from: the
\* vertices of one cell and one more.
VertexPool(D) == D + 2

\* The ascending vertex tuples of the D-cells over the pool.
AscendingCells(D) ==
    {t \in [1..(D + 1) -> 0..(VertexPool(D) - 1)] : \A i \in 1..D : t[i] < t[i + 1]}

\* A cell lists its vertices ascending, or, when their sum is even, with the
\* last two exchanged (so {1,2,3} is listed [1,3,2]).
Listed(asc) ==
    LET n == Len(asc)
    IN  IF SumSeq(asc) % 2 = 1 THEN asc
        ELSE [i \in 1..n |-> IF i = n - 1 THEN asc[n]
                             ELSE IF i = n THEN asc[n - 1] ELSE asc[i]]

\* Lexicographic rank of an ascending tuple.
RECURSIVE Rank(_, _)
Rank(t, base) ==
    IF Len(t) = 0 THEN 0 ELSE Rank(Slice(t, 1, Len(t) - 1), base) * base + t[Len(t)]

\* The cells available to a mesh of dimension D, in lexicographic order.
RECURSIVE Ordered(_, _)
Ordered(S, base) ==
    IF S = {} THEN <<>>
    ELSE LET t == CHOOSE x \in S : \A y \in S : Rank(x, base) <= Rank(y, base)
         IN  <<Listed(t)>> \o Ordered(S \ {t}, base)

CellPool(D) == Ordered(AscendingCells(D), VertexPool(D))

\* The cells of the pool picked by the index set I, in pool order.
Pick(pool, I) ==
    LET n == Cardinality(I)
        at(k) == CHOOSE i \in I : Cardinality({j \in I : j < i}) = k - 1
    IN  [k \in 1..n |-> pool[at(k)]]

\* Meshes: up to MaxCells cells of the pool; an empty mesh may still have
\* vertices.
Meshes ==
    UNION {{[D |-> D, cells |-> Pick(CellPool(D), I), N0 |-> n0] :
              I \in {J \in SUBSET (1..Len(CellPool(D))) : Cardinality(J) <= MaxCells},
              n0 \in {0, VertexPool(D)}} :
           D \in 1..3}

\* A mesh lists only vertices below N_0.
WellFormed(m) ==
    \A i \in 1..Len(m.cells) : \A j \in 1..Len(m.cells[i]) : m.cells[i][j] < m.N0

\* The mesh with its cells renumbered: new cell i is old cell p[i].
Renumber(m, p) ==
    [D |-> m.D, cells |-> [i \in 1..Len(m.cells) |-> m.cells[p[i]]], N0 |-> m.N0]

CellPermutations(n) ==
    {p \in [1..n -> 1..n] : \A i, j \in 1..n : i # j => p[i] # p[j]}

Identity(n) == [i \in 1..n |-> i]

(***************************************************************************)
(* The state machine: requests made on a mesh by its user.                 *)
(***************************************************************************)
Init ==
    /\ mesh \in {m \in Meshes : WellFormed(m)}
    /\ topology = InitialTopology(mesh)
    /\ status = "ok"
    /\ hit = FALSE
    /\ pi = Identity(Len(mesh.cells))
    /\ topologyPi = topology
    /\ statusPi = "ok"
    /\ requests = 0

\* mesh.init(d0, d1): TopologyComputation::compute_connectivity(mesh, d0, d1)
RequestConnectivity(d0, d1) ==
    /\ status = "ok"
    /\ LET r == compute_connectivity(topology, d0, d1, {})
       IN  /\ topology' = r.top
           /\ status' = r.status
    /\ hit' = AlreadyComputed(topology, d0, d1)
    /\ UNCHANGED <<mesh, pi, topologyPi, statusPi, requests>>

\* mesh.init(d): TopologyComputation::compute_entities(mesh, d)
RequestEntities(d) ==
    /\ status = "ok"
    /\ LET r == compute_entities(topology, d, {})
       IN  /\ topology' = r.top
           /\ status' = r.status
    /\ hit' = (TopSize(topology, d) > 0)
    /\ UNCHANGED <<mesh, pi, topologyPi, statusPi, requests>>

Next ==
    \/ \E d0, d1 \in Dims(mesh.D) : RequestConnectivity(d0, d1)
    \/ \E d \in Dims(mesh.D) : RequestEntities(d)

Spec == Init /\ [][Next]_vars

(***************************************************************************)
(* Two runs side by side: the same requests on the mesh and on the mesh    *)
(* with its cells renumbered by pi.                                        *)
(***************************************************************************)
InitPi ==
    /\ mesh \in {m \in Meshes : WellFormed(m)}
    /\ topology = InitialTopology(mesh)
    /\ status = "ok"
    /\ hit = FALSE
    /\ pi \in CellPermutations(Len(mesh.cells))
    /\ topologyPi = InitialTopology(Renumber(mesh, pi))
    /\ statusPi = "ok"
    /\ requests = 0

BothConnectivity(d0, d1) ==
    /\ status = "ok" /\ statusPi = "ok"
    /\ requests < MaxRequests
    /\ LET r == compute_connectivity(topology, d0, d1, {})
           q == compute_connectivity(topologyPi, d0, d1, {})
       IN  /\ topology' = r.top
           /\ status' = r.status
           /\ topologyPi' = q.top
           /\ statusPi' = q.status
    /\ hit' = AlreadyComputed(topology, d0, d1)
    /\ requests' = requests + 1
    /\ UNCHANGED <<mesh, pi>>

BothEntities(d) ==
    /\ status = "ok" /\ statusPi = "ok"
    /\ requests < MaxRequests
    /\ LET r == compute_entities(topology, d, {})
           q == compute_entities(topologyPi, d, {})
       IN  /\ topology' = r.top
           /\ status' = r.status
           /\ topologyPi' = q.top
           /\ statusPi' = q.status
    /\ hit' = (TopSize(topology, d) > 0)
    /\ requests' = requests + 1
    /\ UNCHANGED <<mesh, pi>>

NextPi ==
    \/ \E d0, d1 \in Dims(mesh.D) : BothConnectivity(d0, d1)
    \/ \E d \in Dims(mesh.D) : BothEntities(d)

SpecPi == InitPi /\ [][NextPi]_vars

(***************************************************************************)
(* Vocabulary of the properties.                                           *)
(***************************************************************************)
D == mesh.D

NumCells == Len(mesh.cells)

\* The derived dimensions 0 < d < D.
Derived == {d \in Dims(D) : 0 < d /\ d < D}

\* The d-entities of a table exist.
Known(top, d) == TopSize(top, d) > 0

\* The vertex set of entity e of dimension d, read from Conn[d][0].
EntityVertices(top, d, e) ==
    IF d = 0 THEN {e} ELSE Range(Row(Conn(top, d, 0), e))

\* The k-th local tuple of the oracle applied to cell c of mesh m (k from 1).
LocalTuple(m, d, c, k) == CreateEntities(m.D, d, m.cells[c + 1])[k]

\* The local slots (c, k) of dimension d of mesh m.
Slots(m, d) == (0..(Len(m.cells) - 1)) \X (1..NumEntities(m.D, d))

\* The index Conn[D][d] gives slot k of cell c.
SlotIndex(top, m, d, c, k) == Row(Conn(top, m.D, d), c)[k]

NoDuplicates(s) == \A i, j \in 1..Len(s) : i # j => s[i] # s[j]

TwoTriangles == << <<0, 1, 2>>, <<1, 3, 2>> >>

(***************************************************************************)
(* C1: after compute_entities(d), 0 < d < D, N_d is the number of distinct *)
(* vertex sets among the local d-entities of all cells: no two entity      *)
(* indices have the same vertex set in Conn[d][0], and two local entities  *)
(* get the same index in Conn[D][d] exactly when their vertex sets are     *)
(* equal.                                                                  *)
(***************************************************************************)
C1_EntitiesWithoutDuplicates ==
    \A d \in Derived : Known(topology, d) =>
        /\ Size(Conn(topology, d, 0)) = TopSize(topology, d)
        /\ TopSize(topology, d) =
              Cardinality({Range(LocalTuple(mesh, d, s[1], s[2])) : s \in Slots(mesh, d)})
        /\ \A e1, e2 \in 0..(TopSize(topology, d) - 1) :
              e1 # e2 => EntityVertices(topology, d, e1) # EntityVertices(topology, d, e2)
        /\ \A s, t \in Slots(mesh, d) :
              (SlotIndex(topology, mesh, d, s[1], s[2]) = SlotIndex(topology, mesh, d, t[1], t[2]))
              <=> (Range(LocalTuple(mesh, d, s[1], s[2])) = Range(LocalTuple(mesh, d, t[1], t[2])))

\* Two triangles sharing one edge: five edges, one index in both rows.
C1_Witness ==
    /\ mesh.cells = TwoTriangles
    /\ TopSize(topology, 1) = 5
    /\ Cardinality(Range(Row(Conn(topology, 2, 1), 0))
                   \cap Range(Row(Conn(topology, 2, 1), 1))) = 1

(***************************************************************************)
(* C2: after compute_entities(d), each row e of Conn[d][0] holds the       *)
(* vertices of e in the canonical local order the oracle gives for the     *)
(* cell and slot at which e was first created, not in sorted order.        *)
(***************************************************************************)
\* The slot at which entity e was created: the first one, in ascending
\* cell-then-slot order, that carries its index.
CreatedAt(top, m, d, e) ==
    LET mine == {s \in Slots(m, d) : SlotIndex(top, m, d, s[1], s[2]) = e}
    IN  CHOOSE s \in mine : \A t \in mine :
            s[1] < t[1] \/ (s[1] = t[1] /\ s[2] <= t[2])

C2_CanonicalLocalOrder ==
    \A d \in Derived : Known(topology, d) =>
        \A e \in 0..(TopSize(topology, d) - 1) :
            LET s == CreatedAt(topology, mesh, d, e)
            IN  Row(Conn(topology, d, 0), e) = LocalTuple(mesh, d, s[1], s[2])

(***************************************************************************)
(* C3: once an incidence has been computed its offsets and values never    *)
(* change, once a count N_d is known it never changes, and a repeated      *)
(* request for something already computed leaves the whole table as it is. *)
(***************************************************************************)
C3_ComputedOnce ==
    [][ /\ \A p \in Pairs(D) :
              Size(topology.conn[p]) > 0 => topology'.conn[p] = topology.conn[p]
        /\ \A d \in Dims(D) :
              Known(topology, d) => TopSize(topology', d) = TopSize(topology, d)
        /\ hit' => topology' = topology ]_vars

\* A request repeated on a single-cell mesh whose Conn[D][D] is computed and
\* has no entries at all.
C3_Witness ==
    /\ hit
    /\ NumCells = 1
    /\ Size(Conn(topology, D, D)) = 1
    /\ NumConnections(Conn(topology, D, D)) = 0
    /\ \E d \in Derived : Known(topology, d)

(***************************************************************************)
(* C4: for every mesh, also one without cells, the mutual recursion of     *)
(* compute_connectivity and compute_entities is finite: every request      *)
(* returns.                                                                *)
(***************************************************************************)
C4_RecursionReturns == status # "diverged"

(***************************************************************************)
(* C5: compute_from_transpose(d0, d1), d0 < d1, gives N_d0 rows in which   *)
(* e1 occurs in row e0 as often as e0 occurs in row e1 of Conn[d1][d0],    *)
(* with as many entries in total, every row ascending in e1.               *)
(***************************************************************************)
C5_Transpose ==
    \A p \in Pairs(D) : (p[1] < p[2] /\ Size(topology.conn[p]) > 0) =>
        LET c01 == Conn(topology, p[1], p[2])
            c10 == Conn(topology, p[2], p[1])
        IN  /\ Size(c01) = TopSize(topology, p[1])
            /\ NumConnections(c01) = NumConnections(c10)
            /\ \A e0 \in 0..(TopSize(topology, p[1]) - 1) :
                  /\ \A e1 \in 0..(TopSize(topology, p[2]) - 1) :
                        Count(Row(c01, e0), e1) = Count(Row(c10, e1), e0)
                  /\ \A i, j \in 1..Len(Row(c01, e0)) :
                        i < j => Row(c01, e0)[i] <= Row(c01, e0)[j]

\* A transpose with a row of several neighbours and a row of none.
C5_Witness ==
    \E p \in Pairs(D) :
        /\ p[1] < p[2]
        /\ Size(topology.conn[p]) > 0
        /\ \E e0 \in 0..(Size(topology.conn[p]) - 1) : Len(Row(topology.conn[p], e0)) >= 2
        /\ \E e0 \in 0..(Size(topology.conn[p]) - 1) : Len(Row(topology.conn[p], e0)) = 0

(***************************************************************************)
(* C6: for d0 > d1 > 0, row e0 of Conn[d0][d1] contains each d1-entity at  *)
(* most once, and contains e1 exactly when the vertex set of e1 is a       *)
(* subset of that of e0; in a single tetrahedron every face lists 3 edges  *)
(* and every edge lies in 2 faces.                                         *)
(***************************************************************************)
C6_Containment ==
    /\ \A p \in Pairs(D) : (p[1] > p[2] /\ p[2] > 0 /\ Size(topology.conn[p]) > 0) =>
          /\ Size(topology.conn[p]) = TopSize(topology, p[1])
          /\ \A e0 \in 0..(TopSize(topology, p[1]) - 1) :
                /\ NoDuplicates(Row(topology.conn[p], e0))
                /\ \A e1 \in 0..(TopSize(topology, p[2]) - 1) :
                      (e1 \in Range(Row(topology.conn[p], e0)))
                      <=> (EntityVertices(topology, p[2], e1)
                              \subseteq EntityVertices(topology, p[1], e0))
    /\ (D = 3 /\ NumCells = 1 /\ Size(Conn(topology, 2, 1)) > 0) =>
          /\ \A f \in 0..3 : Len(Row(Conn(topology, 2, 1), f)) = 3
          /\ \A e \in 0..5 :
                Cardinality({f \in 0..3 : e \in Range(Row(Conn(topology, 2, 1), f))}) = 2

\* Face-edge incidence computed by intersection on two tetrahedra.
C6_Witness ==
    /\ D = 3
    /\ NumCells = 2
    /\ Size(Conn(topology, 2, 1)) = 7
    /\ TopSize(topology, 1) = 9

(***************************************************************************)
(* C7: row e of Conn[k][k] has no duplicates, never holds e, and is the    *)
(* set of k-entities other than e that share an entity of the intermediate *)
(* dimension with e: a cell when k = 0, a vertex when k > 0.               *)
(***************************************************************************)
\* Entities a and b of dimension k share a cell (k = 0) or a vertex (k > 0).
ShareIntermediate(k, a, b) ==
    IF k = 0
    THEN \E c \in 1..NumCells : a \in Range(mesh.cells[c]) /\ b \in Range(mesh.cells[c])
    ELSE IF k = D
    THEN Range(mesh.cells[a + 1]) \cap Range(mesh.cells[b + 1]) # {}
    ELSE EntityVertices(topology, k, a) \cap EntityVertices(topology, k, b) # {}

C8_LocalConsistency ==
    \A d \in Derived : Known(topology, d) =>
        \A s \in Slots(mesh, d) :
            EntityVertices(topology, d, SlotIndex(topology, mesh, d, s[1], s[2]))
                = Range(LocalTuple(mesh, d, s[1], s[2]))

\* Three cells, the last reusing an entity created by the first.
C8_Witness ==
    /\ NumCells = 3
    /\ \E d \in Derived :
          /\ Known(topology, d)
          /\ \E k1, k3 \in 1..NumEntities(D, d) :
                SlotIndex(topology, mesh, d, 0, k1) = SlotIndex(topology, mesh, d, 2, k3)

(***************************************************************************)
(* C9: for every derived dimension whose entities exist, every row of      *)
(* Conn[D][d] has m_T(d) entries and every row of Conn[d][0] has n_T(d).   *)
(***************************************************************************)
C9_RowLengths ==
    \A d \in Derived : Known(topology, d) =>
        /\ Size(Conn(topology, D, d)) = NumCells
        /\ \A c \in 0..(NumCells - 1) :
              Len(Row(Conn(topology, D, d), c)) = NumEntities(D, d)
        /\ Size(Conn(topology, d, 0)) = TopSize(topology, d)
        /\ \A e \in 0..(TopSize(topology, d) - 1) :
              Len(Row(Conn(topology, d, 0), e)) = NumVerticesPerEntity(D, d)

\* Tetrahedra sharing faces: rows with reused and with new entities.
C9_Witness ==
    /\ D = 3
    /\ NumCells >= 2
    /\ Known(topology, 1)
    /\ Known(topology, 2)
    /\ TopSize(topology, 2) < 4 * NumCells

(***************************************************************************)
(* C10: renumbering the cells by a permutation pi leaves every count N_d   *)
(* as it is and changes the incidences only by a re-indexing of entities:  *)
(* a bijection between the entity indices of the two runs preserves vertex *)
(* sets and maps each row's neighbour set to the corresponding row's.      *)
(***************************************************************************)
\* The entities of the renumbered run with the vertex set of entity e.
SameVertices(d, e) ==
    {x \in 0..(TopSize(topologyPi, d) - 1) :
        EntityVertices(topologyPi, d, x) = EntityVertices(topology, d, e)}

\* The index of entity e of dimension d in the renumbered run.
Image(d, e) ==
    IF d = 0 THEN e
    ELSE IF d = D THEN (CHOOSE i \in 1..NumCells : pi[i] = e + 1) - 1
    ELSE CHOOSE x \in SameVertices(d, e) : TRUE

C10_CellOrderIndependence ==
    /\ statusPi = status
    /\ \A d \in Dims(D) : TopSize(topologyPi, d) = TopSize(topology, d)
    /\ \A d \in Derived : \A e \in 0..(TopSize(topology, d) - 1) :
          Cardinality(SameVertices(d, e)) = 1
    /\ \A p \in Pairs(D) :
          /\ Size(topologyPi.conn[p]) = Size(topology.conn[p])
          /\ \A e0 \in 0..(Size(topology.conn[p]) - 1) :
                {Image(p[2], x) : x \in Range(Row(topology.conn[p], e0))}
                    = Range(Row(topologyPi.conn[p], Image(p[1], e0)))

\* Three renumbered cells whose derived entities are numbered differently
\* in the two runs.
C10_Witness ==
    /\ NumCells = 3
    /\ pi # Identity(3)
    /\ requests = MaxRequests
    /\ \E d \in Derived :
          /\ Known(topology, d)
          /\ Size(Conn(topology, d, d)) > 0
          /\ \E e \in 0..(TopSize(topology, d) - 1) : Image(d, e) # e

(***************************************************************************)
(* C11: on a mesh with at least one cell and one vertex no request ends on *)
(* a fatal path: the intersection branch is never reached with d0 > 0 and  *)
(* d1 = 0, the transpose and the intersection always find the incidences   *)
(* they need, compute_entities raises neither of its errors, and N_d is    *)
(* known exactly when the incidences compute_entities looks at are         *)
(* non-empty: Conn[D][d] unless d = D, Conn[d][0] unless d = 0.            *)
(***************************************************************************)
\* The outcomes of dolfin_assert (lines 277, 310, 342-344) and dolfin_error
\* (lines 69-71, 79-81).
FatalOutcomes ==
    {"assert: connectivity to vertices should exist",
     "assert: transpose needs connectivity d1 - d0",
     "assert: intersection needs d0 >= d1",
     "assert: intersection needs connectivity d0 - d",
     "assert: intersection needs connectivity d - d1",
     "error: entities exist but connectivity is missing",
     "error: connectivity exists but entities are missing"}

\* The mesh has at least one cell and one vertex.
HasCellAndVertex == NumCells >= 1 /\ mesh.N0 >= 1

\* As stated without the exceptions of line 68: N_d is known exactly when
\* Conn[D][d] and Conn[d][0] are both non-empty, for every d.
C11_KnownIffBothIncidences ==
    HasCellAndVertex =>
        /\ status \notin FatalOutcomes
        /\ \A d \in Dims(D) :
              Known(topology, d) <=>
                  (Size(Conn(topology, D, d)) > 0 /\ Size(Conn(topology, d, 0)) > 0)

C11_NoFatalPath ==
    HasCellAndVertex =>
        /\ status \notin FatalOutcomes
        /\ \A d \in Dims(D) :
              /\ Known(topology, d) =>
                    /\ (d # D => Size(Conn(topology, D, d)) > 0)
                    /\ (d # 0 => Size(Conn(topology, d, 0)) > 0)
              /\ ~Known(topology, d) =>
                    /\ Size(Conn(topology, D, d)) = 0
                    /\ Size(Conn(topology, d, 0)) = 0

\* Every incidence of a mesh of tetrahedra has been computed, each by its
\* own branch of the strategist.
C11_Witness ==
    /\ D = 3
    /\ NumCells >= 2
    /\ status = "ok"
    /\ \A p \in Pairs(D) : Size(topology.conn[p]) > 0

====
